---- MODULE Spec2Model ----
(***************************************************************************)
(* Model of the mitxgraders sampling resolver (sampling.py,                *)
(* gen_symbols_samples with DependentSampler), of the SpecifyDomain        *)
(* decorator (specify_domain.py), of the sampling sets of sampling.py with *)
(* the two random generators they draw from, of the comparer protocol      *)
(* (comparers/baseclasses.py) and of IntervalGrader.grade_bracket          *)
(* (formulagrader/intervalgrader.py).                                      *)
(*                                                                         *)
(* Real numbers are represented by small integers.  A formula is a record  *)
(* holding its text, the set of free variable names the parser reports     *)
(* and what the evaluator computes from them.                              *)
(***************************************************************************)
EXTENDS Integers, Sequences, FiniteSets, TLC

(***************************************************************************)
(* Bounds of the model.                                                    *)
(***************************************************************************)
MaxSamples == 2
MaxSymbols == 3
MaxShapes == 3
MaxArgs == 4
MaxMinLength == 2
RngPeriod == 8
MaxEndpoint == 2
MaxValues == 3
MaxSeed == 1
MaxDraws == 5
MaxTrials == 2
MaxDim == 2
MaxTerms == 2
MaxClosures == 2
MaxEval == 2
MaxBrackets == 2
MaxLevel == 2

None == "None"

VARIABLES
    symbols,                 \* argument: list of symbol names
    samples,                 \* argument: how many samples to generate
    sample_from,             \* argument: symbol name -> sampling set
    constants,               \* argument: constant name -> value
    sample_list,             \* the list of completed sample dictionaries
    sample_dict,             \* the dictionary of the trial in progress
    unevaluated_dependents,  \* pending dependent symbol -> its 'depends'
    scan,                    \* rest of list(unevaluated_dependents.items())
    progress_made,
    compute_call,            \* the latest compute_sample call of the trial
    pc,                      \* "loop", "while", "for", "returned", "raised"
    error                    \* the ConfigError raised, if any

\* SpecifyDomain and one call of the function it decorates
VARIABLES
    input_shapes,            \* config['input_shapes'], as shape tuples or 'square'
    min_length,              \* config['min_length']: <<>> for None, else <<k>>
    sd_pc,                   \* "new", "config_error", "ready", "called"
    call_args,               \* args of the call of _func
    validated,               \* the arguments handed to a schema, in order
    errors,                  \* the list 'errors' of _func
    func_calls,              \* the argument lists the wrapped callable received
    outcome                  \* what the call returned or raised

\* the process-wide random sources and one sampling set object
VARIABLES
    general_rng,             \* state of the generator behind 'random'
    array_rng,               \* state of the generator behind 'np.random'
    sset,                    \* the sampling set that was constructed
    ss_args,                 \* the arguments its constructor was given
    gen_result               \* what the latest gen_sample/compute_sample gave

\* two runs of one program, side by side, for what seeding guarantees
VARIABLES
    runs,                    \* run -> its two generators and its samples so far
    seed,                    \* the seed both runs passed to set_seed, or NoSeed
    calls                    \* the sampling sets sampled since set_seed, in order

\* the trials of one sampling run as tasks drawing from np.random
VARIABLES
    trial_dicts,             \* trial -> the independent samples it has drawn
    start_rng,               \* the state of np.random when the trials began
    order                    \* the trials in the order their draws were taken

\* a RandomFunction and the functions it has generated
VARIABLES
    rf,                      \* the RandomFunction object
    closures,                \* the functions gen_sample() returned, in order
    rf_call                  \* the latest call made of a generated function

\* one grading attempt that compares the evaluations of its trials
VARIABLES
    comparer,                \* the comparer's class and the attempt's progress
    evals,                   \* trial -> its expected and its student evaluation
    comparer_calls           \* the argument lists the comparer received, in order

\* one call of IntervalGrader.grade_bracket
VARIABLES
    grade_entry,             \* the bound's grade entry, updated in place
    bracket_call             \* the arguments of the call, the entry as it was

sampling_vars == <<symbols, samples, sample_from, constants, sample_list, sample_dict,
                   unevaluated_dependents, scan, progress_made, compute_call, pc, error>>

domain_vars == <<input_shapes, min_length, sd_pc, call_args, validated, errors,
                 func_calls, outcome>>

rng_vars == <<general_rng, array_rng>>

sets_vars == <<sset, ss_args, gen_result>>

seed_vars == <<runs, seed, calls>>

trials_vars == <<trial_dicts, start_rng, order>>

rf_vars == <<rf, closures, rf_call>>

grading_vars == <<comparer, evals, comparer_calls>>

bracket_vars == <<grade_entry, bracket_call>>

vars == <<sampling_vars, domain_vars, rng_vars, sets_vars, seed_vars, trials_vars, rf_vars,
          grading_vars, bracket_vars>>

\* what the steps of gen_symbols_samples leave alone (its draws are taken
\* as any possible result, the generator state is not followed there)
outside_sampling == <<domain_vars, rng_vars, sets_vars, seed_vars, trials_vars, rf_vars,
    grading_vars, bracket_vars>>

\* what the steps of SpecifyDomain leave alone
outside_domain == <<sampling_vars, rng_vars, sets_vars, seed_vars, trials_vars, rf_vars,
    grading_vars, bracket_vars>>

\* what the operations on one sampling set leave alone
outside_sets == <<sampling_vars, domain_vars, seed_vars, trials_vars, rf_vars,
    grading_vars, bracket_vars>>

\* what the two runs leave alone
outside_seed == <<sampling_vars, domain_vars, rng_vars, sets_vars, trials_vars, rf_vars,
    grading_vars, bracket_vars>>

\* what the trials' draws leave alone
outside_trials == <<sampling_vars, domain_vars, general_rng, sets_vars, seed_vars, rf_vars,
    grading_vars, bracket_vars>>

\* what a RandomFunction and its functions leave alone
outside_rf == <<sampling_vars, domain_vars, general_rng, sets_vars, seed_vars, trials_vars,
    grading_vars, bracket_vars>>

\* what a grading attempt leaves alone
outside_grading == <<sampling_vars, domain_vars, rng_vars, sets_vars, seed_vars, trials_vars,
                     rf_vars, bracket_vars>>

\* what grading a bracket leaves alone
outside_bracket == <<sampling_vars, domain_vars, rng_vars, sets_vars, seed_vars, trials_vars,
                     rf_vars, grading_vars>>

args_vars == <<symbols, samples, sample_from, constants>>

(***************************************************************************)
(* Names.  NameOrder lists every name of the model in the order Python's   *)
(* sorted() gives to these strings.                                        *)
(***************************************************************************)
NameOrder == <<"c", "m", "p", "q", "x", "y">>

Names == {NameOrder[i] : i \in 1..Len(NameOrder)}

\* The names that may be listed as symbols: x is sampled from a
\* RealInterval, the others are DependentSamplers.
SymbolNames == {"p", "q", "x", "y"}

IndependentNames == {"x"}

(***************************************************************************)
(* Formulas of DependentSamplers: text, free variables, and the operation  *)
(* the evaluator performs ("sum": the sum of the variables plus const,     *)
(* "recip": 1 / (that sum), a formula error when the sum is 0).            *)
(***************************************************************************)
Formula(text, vs, k, op) == [text |-> text, vars |-> vs, const |-> k, op |-> op]

Formulas ==
    { Formula("x+1", {"x"}, 1, "sum"),
      Formula("q", {"q"}, 0, "sum"),
      Formula("p", {"p"}, 0, "sum"),
      Formula("x+c", {"x", "c"}, 0, "sum"),
      Formula("m", {"m"}, 0, "sum"),
      Formula("2", {}, 2, "sum"),
      Formula("1/x", {"x"}, 0, "recip") }

\* parse(formula).variables_used
variables_used(formula) == formula.vars

\* formulas that parse() rejects with a CalcError
MalformedFormulas == {Formula("x+", {}, 0, "malformed"), Formula("(m", {}, 0, "malformed")}

\* parse(formula) raises CalcError
parse_fails(formula) == formula.op = "malformed"

RECURSIVE SumOver(_, _)
SumOver(S, f) ==
    IF S = {} THEN 0
    ELSE LET n == CHOOSE n \in S : TRUE IN f[n] + SumOver(S \ {n}, f)

\* evaluator(formula, variables, functions, suffixes): the value, or a
\* CalcError (ok = FALSE) for an undefined variable or a division by zero.
evaluator(formula, variables) ==
    IF ~(formula.vars \subseteq DOMAIN variables)
    THEN [ok |-> FALSE, value |-> 0]
    ELSE LET s == SumOver(formula.vars, variables) + formula.const IN
         IF formula.op = "recip"
         THEN IF s = 0 THEN [ok |-> FALSE, value |-> 0]
              ELSE [ok |-> TRUE, value |-> 1 \div s]
         ELSE [ok |-> TRUE, value |-> s]

(***************************************************************************)
(* The random sources.  A generator is a state in 0 .. RngPeriod-1 that    *)
(* one draw advances by one, so that from any state every output comes     *)
(* up; a draw in [0, 1) is the fraction state / RngPeriod.  Real results   *)
(* are kept exactly as fixed-point numbers: v stands for v / RngPeriod.    *)
(***************************************************************************)
RngStates == 0 .. (RngPeriod - 1)

\* a generator that a draw does not advance
rng_step_stuck(g) == g

\* the generator state after one draw
rng_step(g) == (g + 1) % RngPeriod

\* random.seed(seed), np.random.seed(seed)
seed_state(s) == s % RngPeriod

\* the fixed-point form of the integer k, and the test for it
Whole(k) == k * RngPeriod

is_whole(v) == v % RngPeriod = 0

\* the nearest integer to the fixed-point number v
Rounded(v) == (2 * v + RngPeriod) \div (2 * RngPeriod)

\* np.random.random_sample(): the numerator of the fraction in [0, 1)
random_sample(g) == g

\* np.random.randint(low, high): an integer in [low, high)
randint(low, high, g) == low + ((high - low) * g) \div RngPeriod

\* a choice that never takes the last entry of a longer sequence
random_choice_short(seq, g) ==
    seq[((g * (IF Len(seq) > 1 THEN Len(seq) - 1 ELSE 1)) \div RngPeriod) + 1]

\* random.choice(seq): seq[int(random() * len(seq))]
random_choice(seq, g) == seq[((g * Len(seq)) \div RngPeriod) + 1]

(***************************************************************************)
(* Sampling sets.                                                          *)
(***************************************************************************)
\* a constructor that keeps start and stop as they were given
RealInterval_as_given(start, stop) ==
    [cls |-> "RealInterval", config |-> [start |-> start, stop |-> stop]]

RealInterval(start, stop) ==
    [cls |-> "RealInterval",
     config |-> IF start > stop THEN [start |-> stop, stop |-> start]
                ELSE [start |-> start, stop |-> stop]]

\* RealInterval.gen_sample() when the generator is in state g, exactly
RealInterval_sample(self, g) ==
    Whole(self.config.start) + (self.config.stop - self.config.start) * random_sample(g)

\* The possible results of RealInterval.gen_sample(), as the resolver's
\* integers: each result rounded to the nearest integer
RealInterval_gen_sample(self) == {Rounded(RealInterval_sample(self, g)) : g \in RngStates}

IntegerRange(start, stop) ==
    [cls |-> "IntegerRange",
     config |-> IF start > stop THEN [start |-> stop, stop |-> start]
                ELSE [start |-> start, stop |-> stop]]

\* a draw from range(start, stop), as the method's docstring words it
IntegerRange_sample_open(self, g) == randint(self.config.start, self.config.stop, g)

\* IntegerRange.gen_sample() when the generator is in state g
IntegerRange_sample(self, g) == randint(self.config.start, self.config.stop + 1, g)

\* TupleOfType: a bare number becomes a one-element tuple.  The argument
\* is [kind |-> "number", items |-> <<v>>] for the bare number v and
\* [kind |-> "tuple", items |-> t] for the tuple t.
TupleOfType(arg) == IF arg.kind = "number" THEN <<arg.items[1]>> ELSE arg.items

DiscreteSet(arg) == [cls |-> "DiscreteSet", config |-> TupleOfType(arg)]

\* a sample that is the position drawn instead of the entry at it
DiscreteSet_sample_position(self, g) ==
    random_choice([i \in 1..Len(self.config) |-> i], g)

\* DiscreteSet.gen_sample() when the generator is in state g
DiscreteSet_sample(self, g) == random_choice(self.config, g)

(***************************************************************************)
(* RandomFunction.  np.random.rand fills an array with successive draws;   *)
(* a drawn fraction s / RngPeriod is kept as its numerator s.  An angle is *)
(* counted in turns and a sine is taken at the quarter turn at or below    *)
(* the angle, where it is 0, 1, 0 or -1.                                   *)
(***************************************************************************)
RECURSIVE rand(_, _)
\* np.random.rand(...) for n entries, in the order they are filled
rand(g, n) == IF n = 0 THEN <<>> ELSE <<g>> \o rand(rng_step(g), n - 1)

RECURSIVE rng_after(_, _)
\* the generator state after n draws
rng_after(g, n) == IF n = 0 THEN g ELSE rng_after(rng_step(g), n - 1)

RandomFunction(input_dim, output_dim, num_terms, center, amplitude, complex) ==
    [cls |-> "RandomFunction",
     config |-> [input_dim |-> input_dim, output_dim |-> output_dim,
                 num_terms |-> num_terms, center |-> center,
                 amplitude |-> amplitude, complex |-> complex]]

\* RandomFunction.gen_sample with np.random in state g: the function it
\* returns, as the values its body is bound to, and the generator after.
\* A holds s for the amplitude (s + RngPeriod) / (2 * RngPeriod), phases
\* and C hold s for s / RngPeriod turns, B holds s for
\* (2 * s - RngPeriod) / (2 * RngPeriod) turns per unit of input.
RandomFunction_gen_sample(self, g) ==
    LET output_dim == self.config.output_dim
        input_dim == self.config.input_dim
        num_terms == self.config.num_terms
        size == output_dim * num_terms * input_dim
        g1 == rng_after(g, size)
        g2 == IF self.config.complex THEN rng_after(g1, size) ELSE g1
        g3 == rng_after(g2, size)
    IN  [function |->
            [nin |-> input_dim, input_dim |-> input_dim, output_dim |-> output_dim,
             num_terms |-> num_terms,
             A |-> rand(g, size),
             phases |-> IF self.config.complex THEN rand(g1, size) ELSE <<>>,
             B |-> rand(g2, size),
             C |-> rand(g3, size)],
         rng |-> rng_after(g3, size)]

\* the sine and the cosine at quarter turn number q
sin_quarter(q) == IF q % 4 = 1 THEN 1 ELSE IF q % 4 = 3 THEN 0 - 1 ELSE 0

cos_quarter(q) == sin_quarter(q + 1)

\* an argument count test that only rejects too few arguments
nargs_mismatch_fewer(args, input_dim) == Len(args) < input_dim

\* if len(args) != input_dim
nargs_mismatch(args, input_dim) == Len(args) # input_dim

\* the function whose bound values a call uses, when the values are kept
\* in one place that every gen_sample() overwrites
bound_to_latest(fs, c) == fs[Len(fs)]

\* the values the body of function number c is bound to
bound_to(fs, c) == fs[c]

\* A * np.sin(B * xarray + C) at [i, j, k], as a numerator over
\* 2 * RngPeriod, real and imaginary part
output_term(f, args, i, j, k) ==
    LET at == ((i - 1) * f.num_terms + (j - 1)) * f.input_dim + k
        angle == (2 * f.B[at] - RngPeriod) * args[k] + 2 * f.C[at]
        sine == sin_quarter((4 * angle) \div (2 * RngPeriod))
        amp == f.A[at] + RngPeriod
        turn == IF f.phases = <<>> THEN 0 ELSE (4 * f.phases[at]) \div RngPeriod
    IN  [re |-> amp * sine * cos_quarter(turn), im |-> amp * sine * sin_quarter(turn)]

\* random_function(*args) of the RandomFunction self, bound to f.  The
\* value lists, per output component, the numerators re and im over
\* 2 * RngPeriod * num_terms.
random_function(self, f, args) ==
    IF nargs_mismatch(args, f.input_dim)
    THEN [type |-> "ConfigError", text |-> "Expected {} arguments, but received {}",
          expected |-> f.input_dim, received |-> Len(args), kind |-> "", value |-> <<>>]
    ELSE LET jk == (1..f.num_terms) \X (1..f.input_dim)
             den == 2 * RngPeriod * self.config.num_terms
             fullsum(i) ==
                 [re |-> SumOver(jk, [t \in jk |-> output_term(f, args, i, t[1], t[2]).re]),
                  im |-> IF f.phases = <<>> THEN 0
                         ELSE SumOver(jk, [t \in jk |-> output_term(f, args, i, t[1], t[2]).im])]
         IN  [type |-> "value", text |-> "", expected |-> 0, received |-> 0,
              kind |-> IF f.output_dim > 1 THEN "MathArray" ELSE "scalar",
              value |-> [i \in 1..f.output_dim |->
                           LET sum == fullsum(i) IN
                           [re |-> sum.re * self.config.amplitude + self.config.center * den,
                            im |-> sum.im * self.config.amplitude]]]

\* a constructor that keeps a 'depends' the user supplied
DependentSampler_keeps_depends(depends, formula) ==
    [cls |-> "DependentSampler",
     config |-> [formula |-> formula,
                 depends |-> IF depends = <<>> THEN variables_used(formula) ELSE depends[1]]]

\* DependentSampler.__init__: 'depends' (<<>> for None, <<S>> for the names
\* S) is overwritten by what the parsed formula uses; a formula that does
\* not parse gives the ConfigError naming it instead of an object.
DependentSampler(depends, formula) ==
    IF parse_fails(formula)
    THEN [cls |-> "ConfigError",
          config |-> [formula |-> formula,
                      message |-> "Formula error in dependent sampling formula: ",
                      named |-> formula.text]]
    ELSE [cls |-> "DependentSampler",
          config |-> [formula |-> formula, depends |-> variables_used(formula)]]

isDependentSampler(s) == s.cls = "DependentSampler"

\* compute_sample evaluating on the first completed trial's dictionary
\* instead of the dictionary it is given
compute_sample_stale(self, sample_dict_) ==
    LET d == IF sample_list # <<>> THEN sample_list[1] ELSE sample_dict_
        r == evaluator(self.config.formula, d) IN
    IF r.ok THEN [raised |-> FALSE, value |-> r.value]
    ELSE [raised |-> TRUE, value |-> 0]

\* DependentSampler.compute_sample: the evaluator's result, a CalcError
\* being converted to a ConfigError naming the formula.
\* a compute_sample that catches the evaluator's error and returns 0
compute_sample_caught(self, sample_dict_) == [raised |-> FALSE, value |-> 0]

compute_sample(self, sample_dict_) ==
    LET r == evaluator(self.config.formula, sample_dict_) IN
    IF r.ok THEN [raised |-> FALSE, value |-> r.value]
    ELSE [raised |-> TRUE, value |-> 0]

\* is_subset returning True as soon as one item is found in the superset
is_subset_any(iterable, iterable_superset) ==
    iterable = {} \/ \E item \in iterable : item \in iterable_superset

is_subset(iterable, iterable_superset) ==
    \A item \in iterable : item \in iterable_superset

\* the names of S in reverse order
RECURSIVE ReversedFrom(_, _)
ReversedFrom(i, S) ==
    IF i < 1 THEN <<>>
    ELSE IF NameOrder[i] \in S THEN <<NameOrder[i]>> \o ReversedFrom(i - 1, S)
         ELSE ReversedFrom(i - 1, S)

sorted_reversed(S) == ReversedFrom(Len(NameOrder), S)

\* sorted(names), as a sequence
RECURSIVE SortedFrom(_, _)
SortedFrom(i, S) ==
    IF i > Len(NameOrder) THEN <<>>
    ELSE IF NameOrder[i] \in S THEN <<NameOrder[i]>> \o SortedFrom(i + 1, S)
         ELSE SortedFrom(i + 1, S)

sorted(S) == SortedFrom(1, S)

(***************************************************************************)
(* Inputs of gen_symbols_samples.                                          *)
(***************************************************************************)
Range(s) == {s[i] : i \in 1..Len(s)}

SymbolLists ==
    {s \in UNION {[1..n -> SymbolNames] : n \in 1..MaxSymbols} :
        \A i, j \in 1..Len(s) : i # j => s[i] # s[j]}

SamplingSetsFor(name) ==
    IF name \in IndependentNames THEN {RealInterval(0, 1)}
    ELSE {DependentSampler(<<>>, f) : f \in Formulas}

SampleFroms(syms) ==
    {sf \in [Range(syms) -> UNION {SamplingSetsFor(n) : n \in Range(syms)}] :
        \A n \in Range(syms) : sf[n] \in SamplingSetsFor(n)}

EmptyDict == [n \in {} |-> 0]

\* The constants argument: no constants, or these (p and x are also symbol
\* names, so they are shadowed when listed as symbols).
AllConstants == [c |-> 5, p |-> 9, x |-> 7]

ConstantMaps == {EmptyDict, AllConstants}

NoError == [kind |-> "none", names |-> <<>>]
NoCall == [symbol |-> None, keys |-> {}]


\* independent = [symbol for symbol in symbols if not isinstance(..., DependentSampler)]
independent == {s \in Range(symbols) : ~isDependentSampler(sample_from[s])}

dependent == {s \in Range(symbols) : isDependentSampler(sample_from[s])}

\* the constants copied without removing the names that are symbols
pruned_constants_unpruned == constants

pruned_constants ==
    [sym \in {n \in DOMAIN constants : n \notin Range(symbols)} |-> constants[sym]]

\* list(d.items()) of a dict built from the symbol list: insertion order
items_list(d) == SelectSeq(symbols, LAMBDA s : s \in DOMAIN d)

\* dict.update / item assignment
\* an update that stores nothing
update_kept(d, e) == d

update(d, e) == [n \in DOMAIN d \cup DOMAIN e |-> IF n \in DOMAIN e THEN e[n] ELSE d[n]]

\* a 'del' that leaves the dictionary as it was
delete_kept(d, k) == d

delete(d, k) == [n \in DOMAIN d \ {k} |-> d[n]]

(***************************************************************************)
(* SpecifyDomain (specify_domain.py).                                      *)
(*                                                                         *)
(* A shape specification is held as the schema leaves it: a shape tuple    *)
(* ((1,) for 1, (k,) for k, (r, c) for [r, c]) or 'square'.  A value is a  *)
(* Python number or a MathArray with a shape.                              *)
(***************************************************************************)
ShapeTuple(dims) == [kind |-> "tuple", dims |-> dims]

Square == [kind |-> "square", dims |-> <<>>]

Scalar == ShapeTuple(<<1>>)

ShapeSpecs == {Scalar, ShapeTuple(<<3>>), Square}

Number == [type |-> "Number", shape |-> <<>>]

MathArray(shape) == [type |-> "MathArray", shape |-> shape]

Values ==
    {Number, MathArray(<<>>), MathArray(<<3>>), MathArray(<<4>>), MathArray(<<2, 2>>)}

Description(what, dims) == [what |-> what, dims |-> dims]

\* MathArray.get_description(shape)
MathArray_get_description(shape) ==
    IF Len(shape) = 0 THEN Description("scalar", <<>>)
    ELSE IF Len(shape) = 1 THEN Description("vector of length", shape)
    ELSE IF Len(shape) = 2 THEN Description("matrix of shape (rows, cols)", shape)
    ELSE Description("tensor of shape", shape)

\* formatters.get_description(obj)
get_description(obj) ==
    IF obj.type = "Number" THEN Description("scalar", <<>>)
    ELSE MathArray_get_description(obj.shape)

is_numberlike_array(obj) == obj.type = "MathArray" /\ Len(obj.shape) = 0

is_square(obj) == Len(obj.shape) = 2 /\ obj.shape[1] = obj.shape[2]

\* low_ordinal with the suffix of every n being 'th'
low_ordinal_th(n) == [n |-> n, suffix |-> "th"]

low_ordinal(n) ==
    IF n = 1 THEN [n |-> n, suffix |-> "st"]
    ELSE IF n = 2 THEN [n |-> n, suffix |-> "nd"]
    ELSE IF n = 3 THEN [n |-> n, suffix |-> "rd"]
    ELSE [n |-> n, suffix |-> "th"]

get_shape_description(shape) ==
    IF shape = Scalar THEN Description("scalar", <<>>)
    ELSE IF shape = Square THEN Description("square matrix", <<>>)
    ELSE MathArray_get_description(shape.dims)

\* What a validator does with an object: it returns a value, or raises
\* Invalid("received a <received>, expected a <expected>").
Valid(value) ==
    [ok |-> TRUE, value |-> value,
     received |-> Description("", <<>>), expected |-> Description("", <<>>)]

Invalid(obj, received, expected) ==
    [ok |-> FALSE, value |-> obj, received |-> received, expected |-> expected]

number_validator(obj) ==
    IF obj.type = "Number" THEN Valid(obj)
    ELSE IF is_numberlike_array(obj) THEN Valid(Number)
    ELSE Invalid(obj, get_description(obj), Description("scalar", <<>>))

\* a shape validator that returns an accepted array's first entry
shape_validator_item(shape, obj) ==
    IF obj.type = "MathArray" /\ shape.kind = "tuple" /\ obj.shape = shape.dims
    THEN Valid(MathArray(<<>>))
    ELSE IF obj.type = "MathArray" /\ shape = Square /\ is_square(obj)
    THEN Valid(obj)
    ELSE Invalid(obj, get_description(obj), get_shape_description(shape))

\* make_shape_validator(shape)(obj)
shape_validator(shape, obj) ==
    IF obj.type = "MathArray" /\ shape.kind = "tuple" /\ obj.shape = shape.dims
    THEN Valid(obj)
    ELSE IF obj.type = "MathArray" /\ shape = Square /\ is_square(obj)
    THEN Valid(obj)
    ELSE Invalid(obj, get_description(obj), get_shape_description(shape))

\* has_shape(shape)(obj)
has_shape(shape, obj) ==
    IF shape = Scalar THEN number_validator(obj) ELSE shape_validator(shape, obj)

IsNone(x) == x = <<>>

\* the wrapped callable, whose result is determined by its arguments
func(args) == [result_of |-> args]

Min(a, b) == IF a < b THEN a ELSE b

\* use_shapes of _func
use_shapes(args) ==
    IF ~IsNone(min_length) THEN [i \in 1..Len(args) |-> input_shapes[1]]
    ELSE input_shapes

NoMsg == [text |-> "", expected |-> 0, received |-> 0]

\* the count test of exact mode accepting surplus arguments
count_msg_surplus(args) ==
    IF ~IsNone(min_length)
    THEN IF Len(args) < min_length[1]
         THEN [text |-> "Expected at least", expected |-> min_length[1],
               received |-> Len(args)]
         ELSE NoMsg
    ELSE IF Len(input_shapes) > Len(args)
         THEN [text |-> "Expected", expected |-> Len(input_shapes),
               received |-> Len(args)]
         ELSE NoMsg

\* the count test of min_length mode refusing exactly min_length arguments
count_msg_strict(args) ==
    IF ~IsNone(min_length)
    THEN IF Len(args) <= min_length[1]
         THEN [text |-> "Expected at least", expected |-> min_length[1],
               received |-> Len(args)]
         ELSE NoMsg
    ELSE IF Len(input_shapes) # Len(args)
         THEN [text |-> "Expected", expected |-> Len(input_shapes),
               received |-> Len(args)]
         ELSE NoMsg

\* msg of _func: the argument-count test
count_msg(args) ==
    IF ~IsNone(min_length)
    THEN IF Len(args) < min_length[1]
         THEN [text |-> "Expected at least", expected |-> min_length[1],
               received |-> Len(args)]
         ELSE NoMsg
    ELSE IF Len(input_shapes) # Len(args)
         THEN [text |-> "Expected", expected |-> Len(input_shapes),
               received |-> Len(args)]
         ELSE NoMsg

\* the validation loop stopping at the first argument that fails
validate_until_failure(args) ==
    LET all == [i \in 1..Min(Len(use_shapes(args)), Len(args)) |->
                   has_shape(use_shapes(args)[i], args[i])]
        bad == {i \in 1..Len(all) : ~all[i].ok}
        n == IF bad = {} THEN Len(all) ELSE CHOOSE i \in bad : \A j \in bad : i <= j
    IN [i \in 1..n |-> all[i]]

\* for schema, arg in zip(schemas, args): the result of each schema(arg)
validate_args(args) ==
    [i \in 1..Min(Len(use_shapes(args)), Len(args)) |->
        has_shape(use_shapes(args)[i], args[i])]

\* the wrapped callable given the validators' return values
call_func_validated(args, results) == <<[i \in 1..Len(results) |-> results[i].value]>>

\* return func(*args): the argument lists the wrapped callable receives
call_func(args, results) == <<args>>

\* lines[1:] of the ArgumentShapeError message
report_lines(args, results) ==
    [i \in 1..Min(Len(use_shapes(args)), Len(results)) |->
        IF ~results[i].ok
        THEN [ordinal |-> low_ordinal(i), status |-> "has an error",
              received |-> results[i].received, expected |-> results[i].expected]
        ELSE [ordinal |-> low_ordinal(i), status |-> "is ok",
              received |-> get_shape_description(use_shapes(args)[i]),
              expected |-> get_shape_description(use_shapes(args)[i])]]

NoOutcome == [type |-> "none", msg |-> NoMsg, lines |-> <<>>, value |-> func(<<>>)]

ShapeLists == UNION {[1..n -> ShapeSpecs] : n \in 0..MaxShapes}

MinLengths == {<<>>} \cup {<<k>> : k \in 1..MaxMinLength}

ArgLists == UNION {[1..n -> Values] : n \in 0..MaxArgs}

DomainIdle ==
    /\ input_shapes = <<>>
    /\ min_length = <<>>
    /\ sd_pc = "new"
    /\ call_args = <<>>
    /\ validated = <<>>
    /\ errors = <<>>
    /\ func_calls = <<>>
    /\ outcome = NoOutcome

SamplingIdle ==
    /\ symbols = <<>>
    /\ samples = 0
    /\ sample_from = EmptyDict
    /\ constants = EmptyDict
    /\ sample_list = <<>>
    /\ sample_dict = EmptyDict
    /\ unevaluated_dependents = EmptyDict
    /\ scan = <<>>
    /\ progress_made = FALSE
    /\ compute_call = NoCall
    /\ pc = "idle"
    /\ error = NoError

NoSet == [cls |-> "None", config |-> <<>>]

NoResult == [type |-> "none", value |-> 0]

\* the generators are not followed
RngIdle ==
    /\ general_rng = 0
    /\ array_rng = 0

SetsIdle ==
    /\ sset = NoSet
    /\ ss_args = <<>>
    /\ gen_result = NoResult

NoSeed == 0 - 1

SeedIdle ==
    /\ runs = <<>>
    /\ seed = NoSeed
    /\ calls = <<>>

TrialsIdle ==
    /\ trial_dicts = <<>>
    /\ start_rng = 0
    /\ order = <<>>

NoInvocation ==
    [closure |-> 0, args |-> <<>>, type |-> "none", text |-> "",
     expected |-> 0, received |-> 0, kind |-> "", value |-> <<>>]

RfIdle ==
    /\ rf = NoSet
    /\ closures = <<>>
    /\ rf_call = NoInvocation

NoComparer == [cls |-> "none", samples |-> 0, pc |-> "idle"]

GradingIdle ==
    /\ comparer = NoComparer
    /\ evals = <<>>
    /\ comparer_calls = <<>>

NoEntry == [grade_decimal |-> 0, ok |-> "none", msg |-> <<>>]

NoBracketCall == [answers |-> <<>>, student_answer |-> "", grade_entry |-> NoEntry]

BracketIdle ==
    /\ grade_entry = NoEntry
    /\ bracket_call = NoBracketCall

GradersIdle == GradingIdle /\ BracketIdle

\* everything but the resolver and the decorator is idle
OthersIdle == RngIdle /\ SetsIdle /\ SeedIdle /\ TrialsIdle /\ RfIdle /\ GradersIdle

DomainInit == SamplingIdle /\ DomainIdle /\ OthersIdle

\* a min_length check that only rejects an empty list of shapes
min_length_incompatible_empty(shapes, ml) == ~IsNone(ml) /\ Len(shapes) < 1

\* SpecifyDomain.__init__: "Check that min_length is compatible with the
\* provided shapes"
min_length_incompatible(shapes, ml) == ~IsNone(ml) /\ Len(shapes) # 1

\* SpecifyDomain.__init__: self.decorate is only assigned in "ready"
Construct ==
    /\ sd_pc = "new"
    /\ \E shapes \in ShapeLists, ml \in MinLengths :
          /\ input_shapes' = shapes
          /\ min_length' = ml
          /\ sd_pc' = IF min_length_incompatible(shapes, ml) THEN "config_error" ELSE "ready"
    /\ UNCHANGED <<call_args, validated, errors, func_calls, outcome>>
    /\ UNCHANGED outside_domain

\* _func(*args): one call of the decorated function
Call ==
    /\ sd_pc = "ready"
    /\ \E args \in ArgLists :
          LET msg == count_msg(args)
              results == validate_args(args)
          IN /\ call_args' = args
             /\ IF msg.text # ""
                THEN /\ outcome' = [NoOutcome EXCEPT !.type = "ArgumentError", !.msg = msg]
                     /\ validated' = <<>>
                     /\ errors' = <<>>
                     /\ func_calls' = <<>>
                ELSE /\ validated' = [i \in 1..Len(results) |-> args[i]]
                     /\ errors' = results
                     /\ IF \A i \in 1..Len(results) : results[i].ok
                        THEN /\ func_calls' = call_func(args, results)
                             /\ outcome' = [NoOutcome EXCEPT
                                              !.type = "returned",
                                              !.value = func(call_func(args, results)[1])]
                        ELSE /\ func_calls' = <<>>
                             /\ outcome' = [NoOutcome EXCEPT
                                              !.type = "ArgumentShapeError",
                                              !.lines = report_lines(args, results)]
    /\ sd_pc' = "called"
    /\ UNCHANGED <<input_shapes, min_length>>
    /\ UNCHANGED outside_domain

\* the caller takes the result or the exception; the decorated function can
\* be called again
CallDone ==
    /\ sd_pc = "called"
    /\ sd_pc' = "ready"
    /\ call_args' = <<>>
    /\ validated' = <<>>
    /\ errors' = <<>>
    /\ func_calls' = <<>>
    /\ outcome' = NoOutcome
    /\ UNCHANGED <<input_shapes, min_length>>
    /\ UNCHANGED outside_domain

DomainNext ==
    \/ Construct
    \/ Call
    \/ CallDone

SpecDomain == DomainInit /\ [][DomainNext]_vars

Init ==
    /\ DomainIdle
    /\ OthersIdle
    /\ symbols \in SymbolLists
    /\ sample_from \in SampleFroms(symbols)
    /\ constants \in ConstantMaps
    /\ samples \in 0..MaxSamples
    /\ sample_list = <<>>
    /\ sample_dict = EmptyDict
    /\ unevaluated_dependents = EmptyDict
    /\ scan = <<>>
    /\ progress_made = FALSE
    /\ compute_call = NoCall
    /\ pc = "loop"
    /\ error = NoError

\* for _ in range(samples): the independent samples and the pending set
BeginTrial ==
    /\ pc = "loop"
    /\ Len(sample_list) < samples
    /\ \E draws \in [independent -> UNION {RealInterval_gen_sample(sample_from[s]) : s \in independent}] :
          /\ \A s \in independent : draws[s] \in RealInterval_gen_sample(sample_from[s])
          /\ sample_dict' = update(pruned_constants, draws)
    /\ unevaluated_dependents' = [s \in dependent |-> sample_from[s].config.depends]
    /\ scan' = <<>>
    /\ progress_made' = FALSE
    /\ compute_call' = NoCall
    /\ pc' = "while"
    /\ UNCHANGED <<args_vars, sample_list, error>>
    /\ UNCHANGED outside_sampling

\* while unevaluated_dependents: (false) ... sample_list.append(sample_dict)
EndTrial ==
    /\ pc = "while"
    /\ DOMAIN unevaluated_dependents = {}
    /\ sample_list' = Append(sample_list, sample_dict)
    /\ pc' = "loop"
    /\ UNCHANGED <<args_vars, sample_dict, unevaluated_dependents, scan,
                   progress_made, compute_call, error>>
    /\ UNCHANGED outside_sampling

\* while unevaluated_dependents: (true) progress_made = False; for ... in list(items)
BeginScan ==
    /\ pc = "while"
    /\ DOMAIN unevaluated_dependents # {}
    /\ progress_made' = FALSE
    /\ scan' = items_list(unevaluated_dependents)
    /\ pc' = "for"
    /\ UNCHANGED <<args_vars, sample_list, sample_dict, unevaluated_dependents,
                   compute_call, error>>
    /\ UNCHANGED outside_sampling

\* one iteration of the for loop over the snapshot of the pending symbols
ScanStep ==
    /\ pc = "for"
    /\ scan # <<>>
    /\ LET symbol == Head(scan)
           dependencies == unevaluated_dependents[symbol]
       IN IF is_subset(dependencies, DOMAIN sample_dict)
          THEN LET r == compute_sample(sample_from[symbol], sample_dict) IN
               /\ compute_call' = [symbol |-> symbol, keys |-> DOMAIN sample_dict]
               /\ IF r.raised
                  THEN /\ pc' = "raised"
                       /\ error' = [kind |-> "formula",
                                    names |-> <<sample_from[symbol].config.formula.text>>]
                       /\ UNCHANGED <<sample_dict, unevaluated_dependents,
                                      progress_made, scan>>
                  ELSE /\ sample_dict' = update(sample_dict, [n \in {symbol} |-> r.value])
                       /\ unevaluated_dependents' = delete(unevaluated_dependents, symbol)
                       /\ progress_made' = TRUE
                       /\ scan' = Tail(scan)
                       /\ UNCHANGED <<pc, error>>
          ELSE /\ scan' = Tail(scan)
               /\ UNCHANGED <<sample_dict, unevaluated_dependents, progress_made,
                              compute_call, pc, error>>
    /\ UNCHANGED <<args_vars, sample_list>>
    /\ UNCHANGED outside_sampling

\* the dependencies of one pending symbol only
all_depends_one ==
    IF DOMAIN unevaluated_dependents = {} THEN {}
    ELSE unevaluated_dependents[CHOOSE s \in DOMAIN unevaluated_dependents : TRUE]

\* the names collected by the 'undefined quantities' check
all_depends == UNION {unevaluated_dependents[s] : s \in DOMAIN unevaluated_dependents}

\* bad_items without the test 'item not in unevaluated_dependents'
bad_items_no_pending == {item \in all_depends : item \notin DOMAIN sample_dict}

bad_items ==
    {item \in all_depends :
        item \notin DOMAIN unevaluated_dependents /\ item \notin DOMAIN sample_dict}

\* a loop that gives up on the pending symbols instead of reporting them
EndScan_downgraded ==
    /\ pc = "for"
    /\ scan = <<>>
    /\ IF progress_made
       THEN /\ pc' = "while"
            /\ UNCHANGED <<sample_list, unevaluated_dependents>>
       ELSE /\ pc' = "loop"
            /\ sample_list' = Append(sample_list, sample_dict)
            /\ unevaluated_dependents' = EmptyDict
    /\ UNCHANGED <<args_vars, sample_dict, scan, progress_made, compute_call, error>>
    /\ UNCHANGED outside_sampling

\* the for loop is exhausted: back to the while test, or the failure report
EndScan ==
    /\ pc = "for"
    /\ scan = <<>>
    /\ IF progress_made
       THEN /\ pc' = "while"
            /\ UNCHANGED error
       ELSE /\ pc' = "raised"
            /\ error' = IF bad_items # {}
                        THEN [kind |-> "undefined", names |-> sorted(bad_items)]
                        ELSE [kind |-> "circular",
                              names |-> sorted(DOMAIN unevaluated_dependents)]
    /\ UNCHANGED <<args_vars, sample_list, sample_dict, unevaluated_dependents,
                   scan, progress_made, compute_call>>
    /\ UNCHANGED outside_sampling

\* return sample_list
Return ==
    /\ pc = "loop"
    /\ Len(sample_list) = samples
    /\ pc' = "returned"
    /\ UNCHANGED <<args_vars, sample_list, sample_dict, unevaluated_dependents,
                   scan, progress_made, compute_call, error>>
    /\ UNCHANGED outside_sampling

Next ==
    \/ BeginTrial
    \/ EndTrial
    \/ BeginScan
    \/ ScanStep
    \/ EndScan
    \/ Return

Spec == Init /\ [][Next]_vars

(***************************************************************************)
(* One sampling set object: its construction, gen_sample() and, for a     *)
(* DependentSampler, compute_sample().  The generators start in any state. *)
(***************************************************************************)
Endpoints == (0 - MaxEndpoint) .. MaxEndpoint

\* the numbers a DiscreteSet may hold
DiscreteValues == {1, 3, 5}

DiscreteArgs ==
    {[kind |-> "number", items |-> <<v>>] : v \in DiscreteValues}
    \cup {[kind |-> "tuple", items |-> t] :
             t \in UNION {[1..n -> DiscreteValues] : n \in 1..MaxValues}}

\* the 'depends' a DependentSampler is constructed with: none, or a list
\* that names no variable, the variable x, or the unused name m
DependsArgs == {<<>>, <<{}>>, <<{"x"}>>, <<{"m"}>>}

\* the dictionaries compute_sample is called with
SampleDicts == {EmptyDict, [x |-> 0], [x |-> 1], [c |-> 5, x |-> 1]}

\* a gen_sample that evaluates the formula on an empty dictionary
DependentSampler_gen_sample_evaluated(self) ==
    LET r == compute_sample(self, EmptyDict) IN
    IF r.raised THEN [type |-> "Exception", value |-> 0]
    ELSE [type |-> "value", value |-> r.value]

\* DependentSampler.gen_sample: raises, whatever the object's state
DependentSampler_gen_sample(self) == [type |-> "Exception", value |-> 0]

SetsInit ==
    /\ SamplingIdle
    /\ DomainIdle
    /\ SetsIdle
    /\ SeedIdle
    /\ TrialsIdle
    /\ RfIdle
    /\ GradersIdle
    /\ general_rng \in RngStates
    /\ array_rng \in RngStates

NewRealInterval ==
    /\ sset.cls = "None"
    /\ \E a \in Endpoints, b \in Endpoints :
          /\ sset' = RealInterval(a, b)
          /\ ss_args' = <<a, b>>
    /\ UNCHANGED <<gen_result, rng_vars>>
    /\ UNCHANGED outside_sets

NewIntegerRange ==
    /\ sset.cls = "None"
    /\ \E a \in Endpoints, b \in Endpoints :
          /\ sset' = IntegerRange(a, b)
          /\ ss_args' = <<a, b>>
    /\ UNCHANGED <<gen_result, rng_vars>>
    /\ UNCHANGED outside_sets

NewDiscreteSet ==
    /\ sset.cls = "None"
    /\ \E arg \in DiscreteArgs :
          /\ sset' = DiscreteSet(arg)
          /\ ss_args' = arg
    /\ UNCHANGED <<gen_result, rng_vars>>
    /\ UNCHANGED outside_sets

NewDependentSampler ==
    /\ sset.cls = "None"
    /\ \E depends \in DependsArgs, formula \in Formulas \cup MalformedFormulas :
          /\ sset' = DependentSampler(depends, formula)
          /\ ss_args' = [depends |-> depends, formula |-> formula]
    /\ UNCHANGED <<gen_result, rng_vars>>
    /\ UNCHANGED outside_sets

\* RealInterval.gen_sample
GenSampleRealInterval ==
    /\ sset.cls = "RealInterval"
    /\ gen_result' = [type |-> "value", value |-> RealInterval_sample(sset, array_rng)]
    /\ array_rng' = rng_step(array_rng)
    /\ UNCHANGED <<sset, ss_args, general_rng>>
    /\ UNCHANGED outside_sets

\* IntegerRange.gen_sample
GenSampleIntegerRange ==
    /\ sset.cls = "IntegerRange"
    /\ gen_result' = [type |-> "value", value |-> Whole(IntegerRange_sample(sset, array_rng))]
    /\ array_rng' = rng_step(array_rng)
    /\ UNCHANGED <<sset, ss_args, general_rng>>
    /\ UNCHANGED outside_sets

\* DiscreteSet.gen_sample
GenSampleDiscreteSet ==
    /\ sset.cls = "DiscreteSet"
    /\ gen_result' = [type |-> "value", value |-> DiscreteSet_sample(sset, general_rng)]
    /\ general_rng' = rng_step(general_rng)
    /\ UNCHANGED <<sset, ss_args, array_rng>>
    /\ UNCHANGED outside_sets

\* DependentSampler.gen_sample
GenSampleDependentSampler ==
    /\ sset.cls = "DependentSampler"
    /\ gen_result' = DependentSampler_gen_sample(sset)
    /\ UNCHANGED <<sset, ss_args, rng_vars>>
    /\ UNCHANGED outside_sets

\* DependentSampler.compute_sample(sample_dict, functions, suffixes)
ComputeSample ==
    /\ sset.cls = "DependentSampler"
    /\ \E d \in SampleDicts :
          LET r == compute_sample(sset, d) IN
          gen_result' = IF r.raised THEN [type |-> "ConfigError", value |-> 0]
                        ELSE [type |-> "computed", value |-> r.value]
    /\ UNCHANGED <<sset, ss_args, rng_vars>>
    /\ UNCHANGED outside_sets

SetsNext ==
    \/ NewRealInterval
    \/ NewIntegerRange
    \/ NewDiscreteSet
    \/ NewDependentSampler
    \/ GenSampleRealInterval
    \/ GenSampleIntegerRange
    \/ GenSampleDiscreteSet
    \/ GenSampleDependentSampler
    \/ ComputeSample

SpecSets == SetsInit /\ [][SetsNext]_vars

\* the caller goes on sampling the DiscreteSet; the generator is fair in
\* that it passes through all its states
FairSpecSets == SpecSets /\ WF_vars(GenSampleDiscreteSet)

(***************************************************************************)
(* Seeding.  Two runs of a program are followed side by side: each starts  *)
(* with its generators in any state, both call set_seed with the same      *)
(* seed and then sample the same sampling sets in the same order.          *)
(***************************************************************************)
Runs == {1, 2}

Seeds == 0 .. MaxSeed

\* the sampling sets the runs sample from
SeedSets ==
    {RealInterval(0, 1), IntegerRange(0 - 1, 2),
     DiscreteSet([kind |-> "tuple", items |-> <<1, 3, 5>>])}

\* a set_seed that seeds the 'random' module only
set_seed_general_only(gen, s) == [general |-> seed_state(s), array |-> gen.array]

\* set_seed(seed): random.seed(seed); np.random.seed(seed)
set_seed(gen, s) == [general |-> seed_state(s), array |-> seed_state(s)]

\* self.gen_sample() with the generators gen: the sample and the generators
\* after it
gen_sample(self, gen) ==
    CASE self.cls = "RealInterval" ->
            [value |-> RealInterval_sample(self, gen.array),
             gen |-> [gen EXCEPT !.array = rng_step(gen.array)]]
      [] self.cls = "IntegerRange" ->
            [value |-> Whole(IntegerRange_sample(self, gen.array)),
             gen |-> [gen EXCEPT !.array = rng_step(gen.array)]]
      [] self.cls = "DiscreteSet" ->
            [value |-> DiscreteSet_sample(self, gen.general),
             gen |-> [gen EXCEPT !.general = rng_step(gen.general)]]

SeedInit ==
    /\ SamplingIdle
    /\ DomainIdle
    /\ RngIdle
    /\ SetsIdle
    /\ TrialsIdle
    /\ RfIdle
    /\ GradersIdle
    /\ runs \in [Runs -> [gen : [general : RngStates, array : RngStates], outputs : {<<>>}]]
    /\ seed = NoSeed
    /\ calls = <<>>

\* both runs call set_seed(s)
SetSeed ==
    /\ \E s \in Seeds :
          /\ seed' = s
          /\ runs' = [r \in Runs |-> [gen |-> set_seed(runs[r].gen, s), outputs |-> <<>>]]
    /\ calls' = <<>>
    /\ UNCHANGED outside_seed

\* both runs call gen_sample() on the same sampling set
SeededSample ==
    /\ seed # NoSeed
    /\ Len(calls) < MaxDraws
    /\ \E self \in SeedSets :
          /\ calls' = Append(calls, self)
          /\ runs' = [r \in Runs |->
                         LET got == gen_sample(self, runs[r].gen) IN
                         [gen |-> got.gen, outputs |-> Append(runs[r].outputs, got.value)]]
    /\ UNCHANGED seed
    /\ UNCHANGED outside_seed

SeedNext ==
    \/ SetSeed
    \/ SeededSample

SpecSeed == SeedInit /\ [][SeedNext]_vars

(***************************************************************************)
(* The trials of gen_symbols_samples as far as their independent samples   *)
(* go.  Every trial takes one draw per independent symbol from the one     *)
(* np.random generator.  The for loop takes all draws of a trial before    *)
(* the next trial's (LoopDraw); TaskDraw is a draw taken by a later trial  *)
(* ahead of that order, as when trials are run as concurrent tasks.        *)
(***************************************************************************)
\* the independent symbols, in the order of the symbol list
TrialSymbols == <<"x", "y">>

TrialSampleFrom == [x |-> RealInterval(0, 2), y |-> RealInterval(0 - 1, 1)]

Unfinished(t) == Cardinality(DOMAIN trial_dicts[t]) < Len(TrialSymbols)

\* the trial whose draws the for loop is taking
LoopTrial == CHOOSE t \in DOMAIN trial_dicts :
                 /\ Unfinished(t)
                 /\ \A u \in DOMAIN trial_dicts : Unfinished(u) => t <= u

\* symbol: sample_from[symbol].gen_sample(), for the next symbol of trial t
TakeDraw(t) ==
    LET symbol == TrialSymbols[Cardinality(DOMAIN trial_dicts[t]) + 1] IN
    /\ trial_dicts' = [trial_dicts EXCEPT
                          ![t] = update(@, [n \in {symbol} |->
                                     RealInterval_sample(TrialSampleFrom[symbol], array_rng)])]
    /\ array_rng' = rng_step(array_rng)
    /\ order' = Append(order, t)
    /\ UNCHANGED start_rng
    /\ UNCHANGED outside_trials

TrialsInit ==
    /\ SamplingIdle
    /\ DomainIdle
    /\ SetsIdle
    /\ SeedIdle
    /\ RfIdle
    /\ GradersIdle
    /\ general_rng = 0
    /\ array_rng \in RngStates
    /\ start_rng = array_rng
    /\ \E n \in 1..MaxTrials : trial_dicts = [t \in 1..n |-> EmptyDict]
    /\ order = <<>>

LoopDraw ==
    /\ \E t \in DOMAIN trial_dicts : Unfinished(t)
    /\ TakeDraw(LoopTrial)

TaskDraw ==
    \E t \in DOMAIN trial_dicts :
        /\ Unfinished(t)
        /\ t # LoopTrial
        /\ TakeDraw(t)

TrialsNext ==
    \/ LoopDraw
    \/ TaskDraw

SpecTrials == TrialsInit /\ [][TrialsNext]_vars

(***************************************************************************)
(* A RandomFunction: its construction, gen_sample() and calls of the       *)
(* functions gen_sample() returned.                                        *)
(***************************************************************************)
\* the configurations: every number of inputs, scalar and widest output,
\* one term and most terms, two (center, amplitude) pairs, real and complex
RfConfigs ==
    {RandomFunction(input_dim, output_dim, num_terms, ca[1], ca[2], complex) :
        input_dim \in 1..MaxDim, output_dim \in {1, MaxDim}, num_terms \in {1, MaxTerms},
        ca \in {<<0, 1>>, <<1, 2>>}, complex \in BOOLEAN}

\* the argument lists a function of nin inputs is called with: every list
\* of nin inputs 0 or 1, and one list of every other length
RfArgLists(nin) ==
    [1..nin -> {0, 1}] \cup {[i \in 1..n |-> 0] : n \in 0..(MaxDim + 1)}

RfInit ==
    /\ SamplingIdle
    /\ DomainIdle
    /\ SetsIdle
    /\ SeedIdle
    /\ TrialsIdle
    /\ RfIdle
    /\ GradersIdle
    /\ general_rng = 0
    /\ array_rng \in RngStates

NewRandomFunction ==
    /\ rf.cls = "None"
    /\ rf' \in RfConfigs
    /\ UNCHANGED <<closures, rf_call, array_rng>>
    /\ UNCHANGED outside_rf

\* RandomFunction.gen_sample
GenSampleRandomFunction ==
    /\ rf.cls = "RandomFunction"
    /\ Len(closures) < MaxClosures
    /\ LET got == RandomFunction_gen_sample(rf, array_rng) IN
          /\ closures' = Append(closures, got.function)
          /\ array_rng' = got.rng
    /\ UNCHANGED <<rf, rf_call>>
    /\ UNCHANGED outside_rf

\* a call of one of the functions gen_sample() returned
CallFunction ==
    /\ rf_call.type = "none"
    /\ \E c \in 1..Len(closures) :
          \E args \in RfArgLists(closures[c].nin) :
              rf_call' = [closure |-> c, args |-> args]
                            @@ random_function(rf, bound_to(closures, c), args)
    /\ UNCHANGED <<rf, closures, array_rng>>
    /\ UNCHANGED outside_rf

\* the call has returned or raised and the caller goes on
CallReturned ==
    /\ rf_call.type # "none"
    /\ rf_call' = NoInvocation
    /\ UNCHANGED <<rf, closures, array_rng>>
    /\ UNCHANGED outside_rf

RfNext ==
    \/ NewRandomFunction
    \/ GenSampleRandomFunction
    \/ CallFunction
    \/ CallReturned

SpecRF == RfInit /\ [][RfNext]_vars

TypeOK ==
    /\ pc \in {"loop", "while", "for", "returned", "raised"}
    /\ Len(sample_list) <= samples
    /\ DOMAIN unevaluated_dependents \subseteq dependent

(***************************************************************************)
(* Helpers of the properties.                                              *)
(***************************************************************************)
Terminated == pc \in {"returned", "raised"}

FormulaOf(s) == sample_from[s].config.formula

DependsOf(s) == sample_from[s].config.depends

\* position of a name in the sort order
Pos(n) == CHOOSE i \in 1..Len(NameOrder) : NameOrder[i] = n

\* strictly increasing, hence sorted and without duplicates
StrictlySorted(seq) ==
    \A i, j \in 1..Len(seq) : i < j => Pos(seq[i]) < Pos(seq[j])

\* the keys every returned dictionary is to have
ExpectedKeys == Range(symbols) \cup (DOMAIN constants \ Range(symbols))

\* the names a dependent symbol refers to that are neither symbols nor constants
MissingNames ==
    {n \in UNION {DependsOf(s) : s \in dependent} :
        n \notin Range(symbols) /\ n \notin DOMAIN constants}

\* A number that every step of gen_symbols_samples decreases.
TrialSize == (Len(symbols) + 1) * (Len(symbols) + 2) + 1

Pending == Cardinality(DOMAIN unevaluated_dependents)

Measure ==
    IF Terminated THEN 0
    ELSE IF pc = "loop" THEN (samples - Len(sample_list)) * TrialSize + 1
    ELSE (samples - Len(sample_list) - 1) * TrialSize + 1 +
         (IF pc = "while"
          THEN Pending * (Len(symbols) + 2) + Len(symbols) + 2
          ELSE Pending * (Len(symbols) + 2) + Len(scan) + 1 +
               (IF progress_made THEN Len(symbols) + 2 ELSE 0))

(***************************************************************************)
(* C1: compute_sample is called for a dependent symbol only when every     *)
(* name of its dependency list is already a key of the trial's sample      *)
(* dictionary, each such key being an independent symbol, an unshadowed    *)
(* constant or a dependent symbol resolved earlier in the trial.           *)
(***************************************************************************)
C1_DependenciesPresentAtCall ==
    compute_call.symbol # None =>
        /\ DependsOf(compute_call.symbol) \subseteq compute_call.keys
        /\ compute_call.keys \subseteq
              independent \cup (DOMAIN constants \ Range(symbols)) \cup
              (dependent \ DOMAIN unevaluated_dependents)
        /\ compute_call.symbol \notin compute_call.keys

\* a call for a symbol that depends on two names, one of them a dependent
\* symbol listed after it
C1_Witness ==
    /\ compute_call.symbol # None
    /\ \E d \in DependsOf(compute_call.symbol) :
          /\ d \in dependent
          /\ \E i, j \in 1..Len(symbols) :
                i < j /\ symbols[i] = compute_call.symbol /\ symbols[j] = d

(***************************************************************************)
(* C2: in every sample dictionary produced, each dependent symbol's value  *)
(* is its formula evaluated on that same dictionary; with y = "x+1",       *)
(* sample['y'] = sample['x'] + 1.                                          *)
(***************************************************************************)
C2_DependentValueFromOwnTrial ==
    \A i \in 1..Len(sample_list) :
        LET d == sample_list[i] IN
        /\ \A s \in dependent :
              /\ s \in DOMAIN d
              /\ evaluator(FormulaOf(s), d).ok
              /\ d[s] = evaluator(FormulaOf(s), d).value
        /\ ("y" \in dependent /\ FormulaOf("y").text = "x+1") => d["y"] = d["x"] + 1

\* two returned dictionaries with different x, y being x+1 in each
C2_Witness ==
    /\ pc = "returned"
    /\ Len(sample_list) = 2
    /\ "y" \in dependent /\ FormulaOf("y").text = "x+1"
    /\ "x" \in independent
    /\ sample_list[1]["x"] # sample_list[2]["x"]
    /\ sample_list[2]["y"] = sample_list[2]["x"] + 1

(***************************************************************************)
(* C3: with p = DependentSampler("q") and q = DependentSampler("p") and    *)
(* N >= 1, gen_symbols_samples raises the circular-dependency error naming *)
(* p and q: it never returns, no dictionary ever holds p or q, and every   *)
(* step brings it closer to the error (no endless loop).                   *)
(***************************************************************************)
C3_Case ==
    /\ Range(symbols) \in {{"p", "q"}, {"p", "q", "x"}}
    /\ FormulaOf("p").text = "q"
    /\ FormulaOf("q").text = "p"
    /\ samples >= 1

C3_Safe ==
    C3_Case =>
        /\ pc # "returned"
        /\ sample_list = <<>>
        /\ "p" \notin DOMAIN sample_dict /\ "q" \notin DOMAIN sample_dict
        /\ pc = "raised" => error = [kind |-> "circular", names |-> <<"p", "q">>]
        /\ pc # "raised" => ENABLED Next

C3_CircularPQ ==
    /\ []C3_Safe
    /\ [][C3_Case => Measure' < Measure]_vars

C3_Witness ==
    /\ C3_Case
    /\ pc = "raised"
    /\ error.kind = "circular"
    /\ "x" \in DOMAIN sample_dict

(***************************************************************************)
(* C4 (as stated): whenever a dependent symbol refers to a name that is    *)
(* neither a symbol nor a constant, the call ends with the 'undefined      *)
(* quantities' error naming it.                                            *)
(***************************************************************************)
C4_Original ==
    (MissingNames # {} /\ Terminated) =>
        /\ pc = "raised"
        /\ error.kind = "undefined"
        /\ MissingNames \subseteq Range(error.names)

(***************************************************************************)
(* C4 (amended): with a dependent symbol referring to a name that is       *)
(* neither a symbol nor a constant and N >= 1, the call never returns and  *)
(* completes no trial; unless the evaluation of a dependent symbol's       *)
(* formula failed first (the formula error), the error raised is the       *)
(* 'undefined quantities' error and names exactly the missing names.       *)
(***************************************************************************)
C4_UndefinedNamed ==
    (MissingNames # {} /\ samples >= 1) =>
        /\ pc # "returned"
        /\ sample_list = <<>>
        /\ pc = "raised" =>
              \/ error.kind = "formula"
              \/ /\ error.kind = "undefined"
                 /\ Range(error.names) = MissingNames

\* the error names two missing names, one of them shared by two symbols
C4_Witness ==
    /\ pc = "raised"
    /\ error.kind = "undefined"
    /\ samples >= 1
    /\ Cardinality(MissingNames) >= 2
    /\ \E s, t \in dependent : s # t /\ DependsOf(s) \cap DependsOf(t) \cap MissingNames # {}

(***************************************************************************)
(* C5: after a scan without progress, the error is the 'undefined          *)
(* quantities' error listing exactly the dependency names of pending       *)
(* symbols that are neither in the dictionary nor pending (sorted, no      *)
(* duplicates) when there is such a name, even if a cycle exists too;      *)
(* otherwise it is the circular-dependency error listing exactly the       *)
(* pending symbols, sorted.                                                *)
(***************************************************************************)
C5_PendingNames == DOMAIN unevaluated_dependents

C5_UndefinedNames ==
    {n \in UNION {DependsOf(s) : s \in C5_PendingNames} :
        n \notin DOMAIN sample_dict /\ n \notin C5_PendingNames}

C5_Classification ==
    (pc = "raised" /\ error.kind # "formula") =>
        /\ ~progress_made /\ scan = <<>> /\ C5_PendingNames # {}
        /\ StrictlySorted(error.names)
        /\ IF C5_UndefinedNames # {}
           THEN error.kind = "undefined" /\ Range(error.names) = C5_UndefinedNames
           ELSE error.kind = "circular" /\ Range(error.names) = C5_PendingNames

\* undefined names reported although a pending symbol refers to itself
C5_Witness ==
    /\ pc = "raised"
    /\ error.kind = "undefined"
    /\ Len(error.names) >= 2
    /\ \E s \in C5_PendingNames : s \in DependsOf(s)

(***************************************************************************)
(* C6: every sample dictionary has exactly the symbols and the constants   *)
(* that are not symbols as keys; a key that is both a symbol and a         *)
(* constant holds the value drawn from or computed by the symbol's         *)
(* sampling set, not the constant's value.                                 *)
(***************************************************************************)
C6_KeysAndShadowing ==
    \A i \in 1..Len(sample_list) :
        LET d == sample_list[i] IN
        /\ DOMAIN d = ExpectedKeys
        /\ \A k \in Range(symbols) \cap DOMAIN constants :
              /\ k \in independent => d[k] \in RealInterval_gen_sample(sample_from[k])
              /\ k \in dependent => d[k] = evaluator(FormulaOf(k), d).value
              /\ d[k] # constants[k]

\* a returned dictionary where p and x shadow constants and c is kept
C6_Witness ==
    /\ pc = "returned"
    /\ Len(sample_list) >= 1
    /\ {"p", "x"} \subseteq Range(symbols) \cap DOMAIN constants
    /\ "c" \in DOMAIN sample_list[1]
    /\ sample_list[1]["p"] # constants["p"]

(***************************************************************************)
(* Helpers of the SpecifyDomain properties.                                *)
(***************************************************************************)
\* whether a value has the shape a specification asks for
Accepts(shape, obj) ==
    IF shape = Scalar
    THEN obj.type = "Number" \/ (obj.type = "MathArray" /\ obj.shape = <<>>)
    ELSE IF shape = Square
    THEN obj.type = "MathArray" /\ Len(obj.shape) = 2 /\ obj.shape[1] = obj.shape[2]
    ELSE obj.type = "MathArray" /\ obj.shape = shape.dims

\* the shape the i-th argument of the call is held against
ShapeFor(i) == IF IsNone(min_length) THEN input_shapes[i] ELSE input_shapes[1]

WrongCount ==
    IF IsNone(min_length) THEN Len(call_args) # Len(input_shapes)
    ELSE Len(call_args) < min_length[1]

Labels == <<"st", "nd", "rd">>

LabelOf(i) == [n |-> i, suffix |-> IF i <= 3 THEN Labels[i] ELSE "th"]

(***************************************************************************)
(* C7: a call with a wrong number of arguments raises only the             *)
(* ArgumentError giving the expected and the received count: no argument   *)
(* is shape-validated, no per-argument report is made and the wrapped      *)
(* callable is not invoked, whatever the shapes of the arguments.          *)
(***************************************************************************)
C7_CountCheckFirst ==
    (sd_pc = "called" /\ WrongCount) =>
        /\ outcome.type = "ArgumentError"
        /\ outcome.msg.expected =
              (IF IsNone(min_length) THEN Len(input_shapes) ELSE min_length[1])
        /\ outcome.msg.received = Len(call_args)
        /\ validated = <<>>
        /\ errors = <<>>
        /\ outcome.lines = <<>>
        /\ func_calls = <<>>

\* three arguments for two configured inputs, the first of a wrong shape
C7_Witness ==
    /\ sd_pc = "called"
    /\ IsNone(min_length)
    /\ Len(input_shapes) = 2
    /\ Len(call_args) = 3
    /\ ~Accepts(input_shapes[1], call_args[1])
    /\ outcome.type = "ArgumentError"

(***************************************************************************)
(* C8: with an acceptable argument count and at least one argument of a    *)
(* wrong shape, the call raises ArgumentShapeError with one line per       *)
(* argument, in order, labelled 1st, 2nd, 3rd, 4th, ..., each marking its  *)
(* argument as ok or as an error; the wrapped callable is not invoked.     *)
(* input_shapes=[3,3] with two vectors of length 4 reports both.           *)
(***************************************************************************)
C8_ReportEveryArgument ==
    (sd_pc = "called" /\ ~WrongCount /\
     \E i \in 1..Len(call_args) : ~Accepts(ShapeFor(i), call_args[i])) =>
        /\ outcome.type = "ArgumentShapeError"
        /\ func_calls = <<>>
        /\ Len(outcome.lines) = Len(call_args)
        /\ \A i \in 1..Len(call_args) :
              /\ outcome.lines[i].ordinal = LabelOf(i)
              /\ outcome.lines[i].status =
                    (IF Accepts(ShapeFor(i), call_args[i]) THEN "is ok" ELSE "has an error")
        /\ (/\ IsNone(min_length)
            /\ input_shapes = <<ShapeTuple(<<3>>), ShapeTuple(<<3>>)>>
            /\ call_args = <<MathArray(<<4>>), MathArray(<<4>>)>>) =>
              \A i \in 1..2 :
                 /\ outcome.lines[i].received = Description("vector of length", <<4>>)
                 /\ outcome.lines[i].expected = Description("vector of length", <<3>>)

\* four arguments, the first accepted and the second and the fourth refused
C8_Witness ==
    /\ sd_pc = "called"
    /\ outcome.type = "ArgumentShapeError"
    /\ Len(call_args) = 4
    /\ Accepts(ShapeFor(1), call_args[1])
    /\ ~Accepts(ShapeFor(2), call_args[2])
    /\ ~Accepts(ShapeFor(4), call_args[4])

(***************************************************************************)
(* C9: with an acceptable argument count and every argument of the right   *)
(* shape, the wrapped callable is invoked exactly once, with the arguments *)
(* as received and in the same order, and its result is returned           *)
(* unchanged.                                                              *)
(***************************************************************************)
C9_TransparentOnValidInput ==
    (sd_pc = "called" /\ ~WrongCount /\
     \A i \in 1..Len(call_args) : Accepts(ShapeFor(i), call_args[i])) =>
        /\ func_calls = <<call_args>>
        /\ outcome.type = "returned"
        /\ outcome.value = func(call_args)

\* a call that returns, one argument being a 0-dimensional MathArray that
\* the scalar validator converts to a number
C9_Witness ==
    /\ sd_pc = "called"
    /\ outcome.type = "returned"
    /\ Len(call_args) >= 2
    /\ \E i \in 1..Len(call_args) :
          call_args[i] = MathArray(<<>>) /\ ShapeFor(i) = Scalar

(***************************************************************************)
(* C10: in min_length mode a call with n >= min_length arguments passes    *)
(* the count test and each of the n arguments is validated against the     *)
(* single configured shape; a call with fewer arguments raises the         *)
(* ArgumentError 'Expected at least <min_length> inputs, but received <n>' *)
(* and validates nothing.                                                  *)
(***************************************************************************)
C10_MinLengthMode ==
    (sd_pc = "called" /\ ~IsNone(min_length)) =>
        IF Len(call_args) >= min_length[1]
        THEN /\ outcome.type \in {"returned", "ArgumentShapeError"}
             /\ validated = call_args
             /\ Len(errors) = Len(call_args)
             /\ \A i \in 1..Len(call_args) :
                   errors[i].ok = Accepts(input_shapes[1], call_args[i])
             /\ outcome.type = "returned" <=>
                   \A i \in 1..Len(call_args) : Accepts(input_shapes[1], call_args[i])
        ELSE /\ outcome.type = "ArgumentError"
             /\ outcome.msg = [text |-> "Expected at least",
                               expected |-> min_length[1],
                               received |-> Len(call_args)]
             /\ validated = <<>>
             /\ func_calls = <<>>

\* exactly min_length = 2 arguments accepted
C10_Witness ==
    /\ sd_pc = "called"
    /\ min_length = <<2>>
    /\ Len(call_args) = 2
    /\ outcome.type = "returned"

\* C11: constructing a SpecifyDomain with min_length set and a number of
\* input shapes other than one (none, or two or more) raises the
\* configuration error, and then no decorator exists that could be called;
\* with min_length unset every number of shapes is accepted.
C11_MinLengthNeedsOneShape ==
    sd_pc # "new" =>
        /\ (sd_pc = "config_error") <=> (~IsNone(min_length) /\ Len(input_shapes) # 1)
        /\ IsNone(min_length) => sd_pc \in {"ready", "called"}
        /\ sd_pc = "config_error" =>
              /\ ~ENABLED Call
              /\ call_args = <<>> /\ validated = <<>> /\ func_calls = <<>>
              /\ outcome = NoOutcome

C11_Witness ==
    /\ sd_pc = "config_error"
    /\ ~IsNone(min_length)
    /\ Len(input_shapes) = 0

\* C12: for RealInterval(a, b) and IntegerRange(a, b), whichever of a and b
\* is larger, the constructor leaves start <= stop and every sample lies
\* in [min(a, b), max(a, b)]; every IntegerRange sample is an integer.
C12_SamplesWithinInterval ==
    sset.cls \in {"RealInterval", "IntegerRange"} =>
        LET a == ss_args[1]
            b == ss_args[2]
            lo == IF a < b THEN a ELSE b
            hi == IF a < b THEN b ELSE a
        IN  /\ sset.config.start <= sset.config.stop
            /\ gen_result.type = "value" =>
                  /\ Whole(lo) <= gen_result.value
                  /\ gen_result.value <= Whole(hi)
                  /\ sset.cls = "IntegerRange" => is_whole(gen_result.value)

C12_Witness ==
    /\ sset.cls = "RealInterval"
    /\ ss_args[1] > ss_args[2]
    /\ gen_result.type = "value"
    /\ ~is_whole(gen_result.value)

\* C13: DiscreteSet(values).gen_sample() returns a member of the configured
\* values (the one value, when a single value was given), after any number
\* of earlier draws, and sampling leaves the configured collection as it is.
C13_Member ==
    sset.cls = "DiscreteSet" =>
        /\ gen_result.type = "value" =>
              \E i \in 1..Len(ss_args.items) : gen_result.value = ss_args.items[i]
        /\ Range(sset.config) = Range(ss_args.items)

C13_DiscreteSetMember ==
    /\ []C13_Member
    /\ [][GenSampleDiscreteSet => sset' = sset]_vars

C13_Witness ==
    /\ sset.cls = "DiscreteSet"
    /\ Len(sset.config) = 3
    /\ sset.config[1] # sset.config[3]
    /\ gen_result.type = "value"
    /\ gen_result.value = sset.config[3]
    /\ general_rng = 0

\* C14: while gen_sample() goes on being called on a DiscreteSet and the
\* generator is fair, every member of the configured values is eventually
\* returned.
C14_EveryMemberReturned ==
    \A v \in DiscreteValues :
        (sset.cls = "DiscreteSet" /\ v \in Range(sset.config))
            ~> (gen_result = [type |-> "value", value |-> v])

C14_Witness ==
    /\ sset.cls = "DiscreteSet"
    /\ sset.config = <<1, 3, 5>>
    /\ gen_result = [type |-> "value", value |-> 5]

\* C15: set_seed(s) resets both random sources, so two runs that pass the
\* same seed and then make the same gen_sample calls get identical
\* sequences of samples, whatever state their generators were in before.
C15_SameSeedSameSamples ==
    seed # NoSeed =>
        /\ runs[1].outputs = runs[2].outputs
        /\ runs[1].gen = runs[2].gen
        /\ Len(runs[1].outputs) = Len(calls)

C15_Witness ==
    /\ seed # NoSeed
    /\ Len(calls) = 5
    /\ \A i \in 1..5 : calls[i] = RealInterval(0, 1)
    /\ runs[1].outputs = runs[2].outputs
    /\ runs[1].outputs[1] # runs[1].outputs[5]

\* the indices in 'order' of the draws trial t took
DrawsOf(t) == SelectSeq([i \in 1..Len(order) |-> i], LAMBDA i : order[i] = t)

\* what symbol number k gets from the draw number n (from 1) taken since
\* the trials began
DrawNumber(k, n) ==
    RealInterval_sample(TrialSampleFrom[TrialSymbols[k]], (start_rng + n - 1) % RngPeriod)

\* the draws were taken trial after trial, as the for loop takes them
InLoopOrder == \A i \in 1..Len(order) : order[i] = ((i - 1) \div Len(TrialSymbols)) + 1

AllTrialsDone == \A t \in DOMAIN trial_dicts : ~Unfinished(t)

\* trial t holds what the for loop would have given it
AsInLoop(t) ==
    \A k \in 1..Cardinality(DOMAIN trial_dicts[t]) :
        trial_dicts[t][TrialSymbols[k]] = DrawNumber(k, (t - 1) * Len(TrialSymbols) + k)

C17_ArgumentCountError ==
    rf_call.type # "none" =>
        /\ closures[rf_call.closure].nin = rf.config.input_dim
        /\ (rf_call.type = "ConfigError") <=> (Len(rf_call.args) # rf.config.input_dim)
        /\ rf_call.type = "ConfigError" =>
              /\ rf_call.text = "Expected {} arguments, but received {}"
              /\ rf_call.expected = rf.config.input_dim
              /\ rf_call.received = Len(rf_call.args)
              /\ rf_call.value = <<>>

C17_Witness ==
    /\ rf.cls = "RandomFunction"
    /\ rf.config.input_dim = 1
    /\ Len(rf_call.args) = 2
    /\ rf_call.type = "ConfigError"
    /\ rf_call.expected = 1
    /\ rf_call.received = 2

\* C18 as stated: every output component of a generated (real) function
\* lies strictly between center - amplitude and center + amplitude.  The
\* components are numerators over 2 * RngPeriod * num_terms.
C18_WithinAmplitude ==
    (rf_call.type = "value" /\ ~rf.config.complex) =>
        LET den == 2 * RngPeriod * rf.config.num_terms IN
        \A i \in 1..Len(rf_call.value) :
            /\ (rf.config.center - rf.config.amplitude) * den < rf_call.value[i].re
            /\ rf_call.value[i].re < (rf.config.center + rf.config.amplitude) * den

\* C19: gen_sample() draws new coefficients and returns a new function
\* bound to them, leaving the functions returned before as they are; a
\* call of a function takes no draw, and its value depends only on that
\* function's own coefficients and the input, whatever gen_sample() calls
\* came later.
C19_OwnCoefficients ==
    rf_call.type = "value" =>
        rf_call.value = random_function(rf, closures[rf_call.closure], rf_call.args).value

\* a step that returns a function (closures grows) and a step that calls
\* one (rf_call is written)
C19_Frame ==
    /\ closures' # closures =>
          /\ Len(closures') = Len(closures) + 1
          /\ \A c \in 1..Len(closures) : closures'[c] = closures[c]
          /\ closures'[Len(closures')].A[1] = array_rng
          /\ rf_call' = rf_call
    /\ rf_call' # rf_call => (array_rng' = array_rng /\ closures' = closures)

C19_ClosureKeepsCoefficients == []C19_OwnCoefficients /\ [][C19_Frame]_vars

C19_Witness ==
    /\ Len(closures) = 2
    /\ closures[1] # closures[2]
    /\ rf_call.closure = 1
    /\ rf_call.type = "value"
    /\ rf_call.value # random_function(rf, closures[2], rf_call.args).value

\* C20: DependentSampler.gen_sample() raises on every call, before or after
\* compute_sample was used; a value only comes from compute_sample.
C20_Raises ==
    sset.cls = "DependentSampler" => gen_result.type \in {"none", "Exception", "ConfigError", "computed"}

C21_DependsFromFormula ==
    sset.cls \in {"DependentSampler", "ConfigError"} =>
        IF parse_fails(ss_args.formula)
        THEN /\ sset.cls = "ConfigError"
             /\ sset.config.message = "Formula error in dependent sampling formula: "
             /\ sset.config.named = ss_args.formula.text
             /\ gen_result = NoResult
        ELSE /\ sset.cls = "DependentSampler"
             /\ sset.config.formula = ss_args.formula
             /\ sset.config.depends = ss_args.formula.vars

C21_Witness ==
    /\ sset.cls = "DependentSampler"
    /\ ss_args.depends = <<{"m"}>>
    /\ ss_args.formula.vars = {"x", "c"}
    /\ sset.config.depends = {"x", "c"}

\* C22: the shape validator for shape (3,) is idempotent on the values it
\* accepts: an argument v that passes is returned unchanged, and validating
\* the returned value again passes and returns v.
C22_ShapeValidatorIdempotent ==
    sd_pc = "called" =>
        \A i \in 1..Len(errors) :
            (use_shapes(call_args)[i] = ShapeTuple(<<3>>) /\ errors[i].ok) =>
                /\ errors[i].value = call_args[i]
                /\ shape_validator(ShapeTuple(<<3>>), errors[i].value) = Valid(call_args[i])

C22_Witness ==
    /\ sd_pc = "called"
    /\ IsNone(min_length)
    /\ Len(errors) >= 2
    /\ input_shapes[2] = ShapeTuple(<<3>>)
    /\ call_args[2] = MathArray(<<3>>)
    /\ errors[2].ok

(***************************************************************************)
(* Comparers.  A grading attempt evaluates the expected and the student    *)
(* expression on each of its N trials and hands the evaluations to the     *)
(* configured comparer.  The two abstract classes fix what a comparer      *)
(* receives; the attempt decides how often it is invoked.                  *)
(***************************************************************************)
ComparerClasses == {"Comparer", "CorrelatedComparer"}

EvalValues == 1..MaxEval

\* Comparer.__call__: one trial's expected and student evaluation
Comparer_call(comparer_params_eval, student_eval) ==
    [comparer_params_eval |-> comparer_params_eval, student_eval |-> student_eval]

\* CorrelatedComparer.__call__: the evaluations of all trials, as two lists
CorrelatedComparer_call(comparer_params_evals, student_evals) ==
    [comparer_params_evals |-> comparer_params_evals, student_evals |-> student_evals]

\* an attempt that hands every comparer one trial at a time
comparer_invocations_per_trial(cls, evals_) ==
    [i \in 1..Len(evals_) |-> Comparer_call(evals_[i].expected, evals_[i].student)]

\* the invocations one grading attempt makes of its comparer, in order
comparer_invocations(cls, evals_) ==
    IF cls = "CorrelatedComparer"
    THEN << CorrelatedComparer_call([i \in 1..Len(evals_) |-> evals_[i].expected],
                                    [i \in 1..Len(evals_) |-> evals_[i].student]) >>
    ELSE [i \in 1..Len(evals_) |-> Comparer_call(evals_[i].expected, evals_[i].student)]

CompareInit ==
    /\ SamplingIdle
    /\ DomainIdle
    /\ OthersIdle

\* a grading attempt starts with a comparer and a number of samples
BeginAttempt ==
    /\ comparer.pc = "idle"
    /\ \E cls \in ComparerClasses, n \in 1..MaxSamples :
           comparer' = [cls |-> cls, samples |-> n, pc |-> "evaluating"]
    /\ UNCHANGED <<evals, comparer_calls, outside_grading>>

\* the expected and the student expression are evaluated on the next trial
EvaluateTrial ==
    /\ comparer.pc = "evaluating"
    /\ Len(evals) < comparer.samples
    /\ \E expected \in EvalValues, student \in EvalValues :
           evals' = Append(evals, [expected |-> expected, student |-> student])
    /\ UNCHANGED <<comparer, comparer_calls, outside_grading>>

\* the comparer is invoked with the arguments of its next invocation
InvokeComparer ==
    /\ comparer.pc = "evaluating"
    /\ Len(evals) = comparer.samples
    /\ Len(comparer_calls) < Len(comparer_invocations(comparer.cls, evals))
    /\ comparer_calls' =
           Append(comparer_calls,
                  comparer_invocations(comparer.cls, evals)[Len(comparer_calls) + 1])
    /\ UNCHANGED <<comparer, evals, outside_grading>>

\* the attempt has made all its invocations
EndAttempt ==
    /\ comparer.pc = "evaluating"
    /\ Len(evals) = comparer.samples
    /\ Len(comparer_calls) = Len(comparer_invocations(comparer.cls, evals))
    /\ comparer' = [comparer EXCEPT !.pc = "done"]
    /\ UNCHANGED <<evals, comparer_calls, outside_grading>>

CompareNext == BeginAttempt \/ EvaluateTrial \/ InvokeComparer \/ EndAttempt

SpecCompare == CompareInit /\ [][CompareNext]_vars

\* C23: a Comparer is invoked once per trial, with that trial's expected
\* and student evaluation; a CorrelatedComparer is invoked exactly once per
\* grading attempt, with the list of all N expected evaluations and the list
\* of all N student evaluations, both in trial order.
C23_ComparerDispatch ==
    /\ comparer.cls = "Comparer" =>
           /\ Len(comparer_calls) <= Len(evals)
           /\ comparer.pc = "done" => Len(comparer_calls) = comparer.samples
           /\ \A i \in 1..Len(comparer_calls) :
                  comparer_calls[i] = [comparer_params_eval |-> evals[i].expected,
                                       student_eval |-> evals[i].student]
    /\ comparer.cls = "CorrelatedComparer" =>
           /\ Len(comparer_calls) <= 1
           /\ comparer.pc = "done" => Len(comparer_calls) = 1
           /\ \A c \in 1..Len(comparer_calls) :
                  /\ comparer_calls[c] =
                         [comparer_params_evals |-> [i \in 1..Len(evals) |-> evals[i].expected],
                          student_evals |-> [i \in 1..Len(evals) |-> evals[i].student]]
                  /\ Len(comparer_calls[c].comparer_params_evals) = comparer.samples
                  /\ Len(comparer_calls[c].student_evals) = comparer.samples

C23_Witness ==
    /\ comparer = [cls |-> "CorrelatedComparer", samples |-> 2, pc |-> "done"]
    /\ Len(comparer_calls) = 1
    /\ comparer_calls[1].student_evals = <<1, 2>>
    /\ comparer_calls[1].comparer_params_evals = <<2, 2>>

(***************************************************************************)
(* C24: gen_symbols_samples terminates for every symbol list, sample count *)
(* and dependency graph: every step brings it closer to its end and a call *)
(* that has not ended can take a step; within a pass of the resolution     *)
(* loop the pending set only shrinks, progress_made is set exactly by a    *)
(* removal, and the pass ends in the configuration error unless            *)
(* progress_made is set.                                                   *)
(***************************************************************************)
C24_CanStep == ~Terminated => ENABLED Next

C24_Pass ==
    /\ Measure' < Measure
    /\ pc = "for" =>
           /\ DOMAIN unevaluated_dependents' \subseteq DOMAIN unevaluated_dependents
           /\ (progress_made' /\ ~progress_made) => Pending' < Pending
           /\ progress_made => progress_made'
           /\ (scan = <<>> /\ ~progress_made) =>
                  pc' = "raised" /\ error'.kind \in {"undefined", "circular"}
           /\ (scan = <<>> /\ progress_made) => pc' = "while"
    /\ (pc = "while" /\ pc' = "for") => ~progress_made'

C24_Terminates == []C24_CanStep /\ [][C24_Pass]_vars

\* a graph with a self-reference: one pass removed a symbol, a later one raised
C24_Witness ==
    /\ pc = "raised"
    /\ error.kind = "circular"
    /\ \E s \in dependent : s \in FormulaOf(s).vars
    /\ \E s \in dependent : s \in DOMAIN sample_dict /\ FormulaOf(s).vars # {}

\* no dependent symbol depends on itself, directly or through others: every
\* non-empty set of dependent symbols has a member that depends on none of them
Acyclic ==
    \A S \in SUBSET dependent : S = {} \/ \E s \in S : DependsOf(s) \cap S = {}

\* an acyclic graph whose every dependency is a symbol or a constant
C25_Case == Acyclic /\ MissingNames = {}

(***************************************************************************)
(* C25 (as stated): with an acyclic dependency graph whose every name is a *)
(* requested symbol or a constant, the call raises nothing and returns     *)
(* exactly N dictionaries that hold a value for every dependent symbol.    *)
(***************************************************************************)
C25_Original ==
    C25_Case =>
        /\ pc # "raised"
        /\ pc = "returned" =>
              /\ Len(sample_list) = samples
              /\ \A i \in 1..Len(sample_list) : dependent \subseteq DOMAIN sample_list[i]

(***************************************************************************)
(* C25 (amended): with an acyclic dependency graph whose every name is a   *)
(* requested symbol or a constant, a call that ends in an error ends in    *)
(* the formula error of a failed evaluation, never in the undefined or the *)
(* circular error; a call that returns, returns exactly N dictionaries and *)
(* each holds a value for every dependent symbol, the value of its formula *)
(* on that dictionary.                                                     *)
(***************************************************************************)
C25_AcyclicResolves ==
    (Terminated /\ C25_Case) =>
        /\ pc = "raised" => error.kind = "formula"
        /\ pc = "returned" =>
              /\ Len(sample_list) = samples
              /\ \A i \in 1..Len(sample_list) :
                    /\ dependent \subseteq DOMAIN sample_list[i]
                    /\ \A s \in dependent :
                           sample_list[i][s] = evaluator(FormulaOf(s), sample_list[i]).value

\* a chain of depth three listed against its order of resolution, N = 2
C25_Witness ==
    /\ pc = "returned"
    /\ samples = 2
    /\ Len(sample_list) = 2
    /\ symbols = <<"y", "q", "p">>
    /\ FormulaOf("y").text = "q"
    /\ FormulaOf("q").text = "p"
    /\ FormulaOf("p").text = "x+1"

\* the results gen_sample() of an IntegerRange can give, over all generator states
IntegerRange_results(self) == {IntegerRange_sample(self, g) : g \in RngStates}

C27_FormulaErrorState ==
    (pc = "raised" /\ error.kind = "formula") =>
        /\ compute_call.symbol \in DOMAIN unevaluated_dependents
        /\ compute_call.symbol \notin DOMAIN sample_dict
        /\ error.names = <<FormulaOf(compute_call.symbol).text>>
        /\ ~evaluator(FormulaOf(compute_call.symbol), sample_dict).ok
        /\ Len(sample_list) < samples
        /\ ~ENABLED Next

C27_FailedEvaluationRaises ==
    (/\ pc = "for"
     /\ scan # <<>>
     /\ is_subset(unevaluated_dependents[Head(scan)], DOMAIN sample_dict)
     /\ ~evaluator(FormulaOf(Head(scan)), sample_dict).ok) =>
        /\ pc' = "raised"
        /\ error' = [kind |-> "formula", names |-> <<FormulaOf(Head(scan)).text>>]
        /\ sample_list' = sample_list
        /\ sample_dict' = sample_dict

C27_FormulaErrorPropagates == []C27_FormulaErrorState /\ [][C27_FailedEvaluationRaises]_vars

\* the formula error of the second trial, the first trial having completed
C27_Witness ==
    /\ pc = "raised"
    /\ error = [kind |-> "formula", names |-> <<"1/x">>]
    /\ Len(sample_list) = 1
    /\ samples = 2

\* a circular or an undefined dependency among the dependent symbols
C28_Case == ~Acyclic \/ MissingNames # {}

(***************************************************************************)
(* C28 (as stated): with a circular or an undefined dependency the call    *)
(* ends in a configuration error for every sample count N and never        *)
(* returns a sample list.                                                  *)
(***************************************************************************)
C28_Original == C28_Case => pc # "returned"

\* what a call does that was stopped in its first trial, or ran no trial
C28_Fatal ==
    /\ samples >= 1 =>
          /\ pc # "returned"
          /\ sample_list = <<>>
          /\ pc = "raised" => error.kind \in {"undefined", "circular", "formula"}
    /\ samples = 0 =>
          /\ pc \in {"loop", "returned"}
          /\ sample_list = <<>>
          /\ error = NoError

(***************************************************************************)
(* C28 (amended): with a circular or an undefined dependency and N >= 1    *)
(* the call never returns and completes no trial: it ends in its first     *)
(* trial with the undefined, the circular or, if an evaluation failed      *)
(* before the report, the formula error.  With N = 0 no trial is run and   *)
(* the call returns the empty list without any error.  (Stated by          *)
(* contraposition: a call that does otherwise has neither a circular nor   *)
(* an undefined dependency.)                                               *)
(***************************************************************************)
C28_FatalFromOneSample == ~C28_Fatal => ~C28_Case

\* the circular error with every name defined and more than one sample asked for
C28_Witness ==
    /\ pc = "raised"
    /\ error.kind = "circular"
    /\ samples = 2
    /\ MissingNames = {}
    /\ Len(symbols) = 3

(***************************************************************************)
(* IntervalGrader.grade_bracket.  A bracket's grade_decimal is k/MaxLevel  *)
(* and is held as k; a bound's grade_decimal is held in units of           *)
(* 1/MaxLevel^2, so that the product of the two is exact.  A message is    *)
(* the sequence of its lines, the empty string being the empty sequence.   *)
(***************************************************************************)
BracketChars == {"[", "("}

BracketGrades == 0..MaxLevel

\* the grade_decimal k/MaxLevel of a bound's entry
EntryGrade(k) == k * MaxLevel

\* grade_entry['grade_decimal'] * best['grade_decimal']
times(entry_grade, bracket_grade) == (entry_grade * bracket_grade) \div MaxLevel

\* AbstractGrader.grade_decimal_to_ok
grade_decimal_to_ok(gd) ==
    IF gd = 0 THEN "False"
    ELSE IF gd = EntryGrade(MaxLevel) THEN "True"
    ELSE "partial"

\* a comparison that prefers the bracket awarding less
better_lower(bracket, best) == bracket.grade_decimal < best.grade_decimal

\* bracket['grade_decimal'] > best['grade_decimal']
better(bracket, best) == bracket.grade_decimal > best.grade_decimal

\* the loop over the answers; best is <<>> for None and <<bracket>> otherwise
RECURSIVE find_best(_, _, _, _)
find_best(answers, student_answer, i, best) ==
    IF i > Len(answers) THEN best
    ELSE find_best(answers, student_answer, i + 1,
                   IF /\ student_answer = answers[i].expect
                      /\ (best = <<>> \/ better(answers[i], best[1]))
                   THEN <<answers[i]>>
                   ELSE best)

grade_bracket(answers, student_answer, entry) ==
    IF entry.grade_decimal = 0 THEN entry
    ELSE LET best == find_best(answers, student_answer, 1, <<>>) IN
         IF best = <<>>
         THEN [entry EXCEPT !.grade_decimal = 0, !.ok = "False"]
         ELSE LET gd == times(entry.grade_decimal, best[1].grade_decimal) IN
              [grade_decimal |-> gd,
               ok |-> grade_decimal_to_ok(gd),
               msg |-> IF best[1].msg # <<>> THEN entry.msg \o best[1].msg
                       ELSE entry.msg]

\* the answers for one bracket: each a character, a grade and a message
BracketAnswers ==
    [expect : BracketChars, grade_decimal : BracketGrades, msg : {<<>>, <<"b">>}]

\* the entries the grading of the bounds hands over
GradeEntries ==
    {[grade_decimal |-> EntryGrade(k), ok |-> grade_decimal_to_ok(EntryGrade(k)), msg |-> m] :
        k \in 0..MaxLevel, m \in {<<>>, <<"e">>}}

BracketInit ==
    /\ SamplingIdle
    /\ DomainIdle
    /\ OthersIdle

\* self.grade_bracket(answers, student_answer, grade_entry)
GradeBracket ==
    /\ bracket_call = NoBracketCall
    /\ \E answers \in UNION {[1..n -> BracketAnswers] : n \in 1..MaxBrackets},
          student_answer \in BracketChars,
          entry \in GradeEntries :
          /\ bracket_call' = [answers |-> answers, student_answer |-> student_answer,
                              grade_entry |-> entry]
          /\ grade_entry' = grade_bracket(answers, student_answer, entry)
    /\ UNCHANGED outside_bracket

BracketNext == GradeBracket

SpecBracket == BracketInit /\ [][BracketNext]_vars

(***************************************************************************)
(* C29: grade_bracket leaves an entry whose grade_decimal is 0 as it was;  *)
(* otherwise, if no answer bracket equals the student's bracket, it sets   *)
(* grade_decimal to 0 and ok to False; otherwise it multiplies the entry's *)
(* grade_decimal by the highest grade_decimal among the answer brackets    *)
(* equal to the student's.  The entry's grade_decimal never increases.     *)
(***************************************************************************)
C29_GradeBracket ==
    bracket_call # NoBracketCall =>
        LET before == bracket_call.grade_entry
            answers == bracket_call.answers
            matching == {i \in 1..Len(answers) :
                            answers[i].expect = bracket_call.student_answer}
        IN /\ before.grade_decimal = 0 => grade_entry = before
           /\ (before.grade_decimal # 0 /\ matching = {}) =>
                  grade_entry.grade_decimal = 0 /\ grade_entry.ok = "False"
           /\ (before.grade_decimal # 0 /\ matching # {}) =>
                  \E i \in matching :
                     /\ \A j \in matching :
                            answers[j].grade_decimal <= answers[i].grade_decimal
                     /\ grade_entry.grade_decimal * MaxLevel =
                            before.grade_decimal * answers[i].grade_decimal
           /\ grade_entry.grade_decimal <= before.grade_decimal

\* two answers match, the second awards more, and the credit is cut to partial
C29_Witness ==
    /\ Len(bracket_call.answers) = 2
    /\ bracket_call.answers[1].expect = bracket_call.student_answer
    /\ bracket_call.answers[2].expect = bracket_call.student_answer
    /\ bracket_call.answers[1].grade_decimal = 0
    /\ bracket_call.answers[2].grade_decimal = 1
    /\ bracket_call.grade_entry.grade_decimal = EntryGrade(MaxLevel)
    /\ grade_entry.grade_decimal = EntryGrade(1)
    /\ grade_entry.ok = "partial"

====
